---- MODULE Spec2Model ----
(***************************************************************************)
(* Falcon-512 signature verification (soroban-falcon-verifier).            *)
(*                                                                         *)
(* The verifier is a pure function of (public key, message, signature).    *)
(* Each function of verify.rs is an operator computed the way the code     *)
(* computes it (bit accumulators, 32-bit words, early returns); a slice    *)
(* index the code would panic on yields panic |-> TRUE instead of a value. *)
(* A specification draws the inputs of one function from bounded sets in   *)
(* its Init and applies the function in its action.                        *)
(*                                                                         *)
(* The ring degree is scaled: the source fixes n = 512 = 4 * 128, the      *)
(* model uses n = 4 * NScale.  n stays a multiple of 4, so 14*n bits (the  *)
(* public key) and 12*n bits (the constant-time body) fill whole bytes as  *)
(* they do for n = 512.  Every other number is the source's.               *)
(***************************************************************************)
EXTENDS Integers, Sequences, FiniteSets, TLC

VARIABLES pc, pubkey, message, signature, xof, data, s1, s2, result,
          storage, auth_contexts, op, earlier

vars == <<pc, pubkey, message, signature, xof, data, s1, s2, result,
          storage, auth_contexts, op, earlier>>

(***************************************************************************)
(* Parameters                                                              *)
(***************************************************************************)
NScale == 1

FALCON_512_N == 4 * NScale

FALCON_512_LOGN == 9

FALCON_512_PUBKEY_SIZE == 1 + (14 * FALCON_512_N) \div 8

Q == 12289

L2_BOUND_512 == 34034726

NONCE_END == 41

SIG_MIN_SIZE == 42

(***************************************************************************)
(* Machine arithmetic.  A u32 is kept as its two 16-bit halves             *)
(* [hi |-> bits 31..16, lo |-> bits 15..0], so that every operation keeps  *)
(* the 32-bit width of the source.                                         *)
(***************************************************************************)
Pow2(n) == 2 ^ n

HALF == 2 ^ 16

\* bit k (0 = least significant) of a number below 2^31
BitAt(x, k) == (x \div Pow2(k)) % 2

\* the u32 of a number 0 <= x < 2^31
ToU32(x) == [hi |-> x \div HALF, lo |-> x % HALF]

\* (acc << 8) | byte: the bits shifted past bit 31 are lost
ShiftInByte(acc, byte) ==
    [hi |-> ((acc.hi * 256) % HALF) + (acc.lo \div 256),
     lo |-> ((acc.lo * 256) % HALF) + byte]

\* bit k of a u32
BitAt32(acc, k) ==
    IF k >= 32 THEN 0
    ELSE IF k >= 16 THEN BitAt(acc.hi, k - 16)
    ELSE BitAt(acc.lo, k)

\* (acc >> from) & ((1 << n) - 1), n <= 16
RECURSIVE Field(_, _, _)
Field(acc, from, n) ==
    IF n = 0 THEN 0
    ELSE BitAt32(acc, from) + 2 * Field(acc, from + 1, n - 1)

\* acc & ((1 << n) - 1), n <= 16
LowBits(acc, n) == Field(acc, 0, n)

\* a | b on 16-bit halves
RECURSIVE BitOr(_, _)
BitOr(a, b) ==
    IF a = 0 THEN b
    ELSE IF b = 0 THEN a
    ELSE (IF a % 2 = 1 \/ b % 2 = 1 THEN 1 ELSE 0) + 2 * BitOr(a \div 2, b \div 2)

\* a | b on u32
BitOr32(a, b) == [hi |-> BitOr(a.hi, b.hi), lo |-> BitOr(a.lo, b.lo)]

\* s.wrapping_add(x), 0 <= x < 2^31
WrappingAdd(s, x) ==
    LET lo == s.lo + (x % HALF)
    IN  [hi |-> (s.hi + (x \div HALF) + (lo \div HALF)) % HALF, lo |-> lo % HALF]

\* 0u32.wrapping_sub(x), 0 < x < 2^31
WrappingNeg(x) ==
    LET lo == (HALF - (x % HALF)) % HALF
        borrow == IF x % HALF = 0 THEN 0 ELSE 1
    IN  [hi |-> (2 * HALF - (x \div HALF) - borrow) % HALF, lo |-> lo]

\* a <= b for a u32 a and a number b < 2^31
LeqU32(a, b) == a.hi < HALF \div 2 /\ a.hi * HALF + a.lo <= b

\* an array of n copies of v
Fill(n, v) == [i \in 1 .. n |-> v]

\* the slice a[from..] of a byte slice (0-based from), from <= len
SliceFrom(a, from) == [i \in 1 .. (Len(a) - from) |-> a[from + i]]

(***************************************************************************)
(* decode_pubkey: 14 bits per coefficient, MSB-first                       *)
(***************************************************************************)
\* verify.rs:229  if w >= Q { return false; }
coeff_out_of_range_mut(w) == w > Q

coeff_out_of_range(w) == w >= Q

RECURSIVE decode_pubkey_loop(_, _, _, _, _, _)
decode_pubkey_loop(bytes, acc, acc_len, u, buf_idx, h) ==
    IF u >= FALCON_512_N
    THEN \* leftover bits of the accumulator must be zero
         [panic |-> FALSE, ok |-> LowBits(acc, acc_len) = 0, h |-> h]
    ELSE IF buf_idx >= Len(bytes)
    THEN [panic |-> TRUE, ok |-> FALSE, h |-> h]
    ELSE LET acc1 == ShiftInByte(acc, bytes[buf_idx + 1])
             len1 == acc_len + 8
         IN  IF len1 >= 14
             THEN LET len2 == len1 - 14
                      w == Field(acc1, len2, 14)
                  IN  IF coeff_out_of_range(w)
                      THEN [panic |-> FALSE, ok |-> FALSE, h |-> h]
                      ELSE decode_pubkey_loop(bytes, acc1, len2, u + 1,
                                              buf_idx + 1, [h EXCEPT ![u + 1] = w])
             ELSE decode_pubkey_loop(bytes, acc1, len1, u, buf_idx + 1, h)

bad_pubkey_header_mut(b) == FALSE

\* verify.rs:205  if pubkey[0] != 9 { return false; }
bad_pubkey_header(b) == b # 9

decode_pubkey(pk) ==
    IF Len(pk) # FALCON_512_PUBKEY_SIZE
    THEN [panic |-> FALSE, ok |-> FALSE, h |-> Fill(FALCON_512_N, 0)]
    ELSE IF bad_pubkey_header(pk[1])
    THEN [panic |-> FALSE, ok |-> FALSE, h |-> Fill(FALCON_512_N, 0)]
    ELSE decode_pubkey_loop(SliceFrom(pk, 1), ToU32(0), 0, 0, 0, Fill(FALCON_512_N, 0))

(***************************************************************************)
(* decode_sig_compressed: sign, 7 low bits, unary high part                *)
(***************************************************************************)
\* verify.rs:283  if m > 2047 { return 0; }
magnitude_overflow_mut(m) == m > 2047 + 128

magnitude_overflow(m) == m > 2047

\* verify.rs:290  if sign != 0 && m == 0 { return 0; }
is_negative_zero_mut(sign, m) == FALSE

is_negative_zero(sign, m) == sign # 0 /\ m = 0

\* verify.rs:299  if (acc & ((1u32 << acc_len) - 1)) != 0 { return 0; }
compressed_tail_nonzero(acc, acc_len) == LowBits(acc, acc_len) # 0

\* the unary loop of one coefficient (verify.rs:265-287)
RECURSIVE decode_unary(_, _, _, _, _)
decode_unary(bytes, acc, acc_len, v, m) ==
    IF acc_len = 0 /\ v >= Len(bytes)
    THEN [ok |-> FALSE, acc |-> acc, acc_len |-> acc_len, v |-> v, m |-> m]
    ELSE LET refill == acc_len = 0
             acc1 == IF refill THEN ShiftInByte(acc, bytes[v + 1]) ELSE acc
             v1 == IF refill THEN v + 1 ELSE v
             len1 == (IF refill THEN 8 ELSE acc_len) - 1
         IN  IF BitAt32(acc1, len1) # 0
             THEN [ok |-> TRUE, acc |-> acc1, acc_len |-> len1, v |-> v1, m |-> m]
             ELSE IF magnitude_overflow(m + 128)
             THEN [ok |-> FALSE, acc |-> acc1, acc_len |-> len1, v |-> v1,
                   m |-> m + 128]
             ELSE decode_unary(bytes, acc1, len1, v1, m + 128)

apply_sign_mut(sign, m) == m

\* verify.rs:295  s2[u] = if sign != 0 { -(m as i16) } else { m as i16 }
apply_sign(sign, m) == IF sign # 0 THEN -m ELSE m

all_coefficients_decoded_mut(u) == u >= FALCON_512_N - 1

\* verify.rs:251  for u in 0..FALCON_512_N
all_coefficients_decoded(u) == u >= FALCON_512_N

\* read is v, the number of bytes read, when the function returns
RECURSIVE decode_sig_compressed_loop(_, _, _, _, _, _)
decode_sig_compressed_loop(bytes, acc, acc_len, v, u, out) ==
    IF all_coefficients_decoded(u)
    THEN IF compressed_tail_nonzero(acc, acc_len)
         THEN [len |-> 0, s2 |-> out, read |-> v]
         ELSE [len |-> v, s2 |-> out, read |-> v]
    ELSE IF v >= Len(bytes)
    THEN [len |-> 0, s2 |-> out, read |-> v]
    ELSE LET acc1 == ShiftInByte(acc, bytes[v + 1])
             b == Field(acc1, acc_len, 8)
             sign == BitAt(b, 7) * 128
             un == decode_unary(bytes, acc1, acc_len, v + 1, b % 128)
         IN  IF ~un.ok
             THEN [len |-> 0, s2 |-> out, read |-> un.v]
             ELSE IF is_negative_zero(sign, un.m)
             THEN [len |-> 0, s2 |-> out, read |-> un.v]
             ELSE decode_sig_compressed_loop(bytes, un.acc, un.acc_len, un.v, u + 1,
                      [out EXCEPT ![u + 1] = apply_sign(sign, un.m)])

\* returns the bytes consumed (0 on error) and the coefficients written
decode_sig_compressed(bytes) ==
    decode_sig_compressed_loop(bytes, ToU32(0), 0, 0, 0, Fill(FALCON_512_N, 0))

(***************************************************************************)
(* decode_sig_ct: 12 bits per coefficient, two's complement                *)
(***************************************************************************)
BITS == 12

CT_IN_LEN == ((FALCON_512_N * BITS) + 7) \div 8

\* w as i16, w a u32
AsI16(w) == IF w.lo >= HALF \div 2 THEN w.lo - HALF ELSE w.lo

sign_extend_mut(w) == ToU32(w)

\* verify.rs:336-338  if (w & mask2) != 0 { w |= !mask1; }
sign_extend(w) ==
    IF BitAt(w, BITS - 1) # 0
    THEN BitOr32(ToU32(w), [hi |-> HALF - 1, lo |-> HALF - Pow2(BITS)])
    ELSE ToU32(w)

\* verify.rs:340  if w == (0u32.wrapping_sub(mask2) & mask1) { return 0; }
ct_rejected(w) == w = ToU32(LowBits(WrappingNeg(Pow2(BITS - 1)), BITS))

\* the inner while of verify.rs:330-346
RECURSIVE ct_extract(_, _, _, _)
ct_extract(acc, acc_len, u, out) ==
    IF acc_len >= BITS /\ u < FALCON_512_N
    THEN LET len1 == acc_len - BITS
             w == sign_extend(Field(acc, len1, BITS))
         IN  IF ct_rejected(w)
             THEN [ok |-> FALSE, acc_len |-> len1, u |-> u, s2 |-> out]
             ELSE ct_extract(acc, len1, u + 1, [out EXCEPT ![u + 1] = AsI16(w)])
    ELSE [ok |-> TRUE, acc_len |-> acc_len, u |-> u, s2 |-> out]

RECURSIVE decode_sig_ct_loop(_, _, _, _, _, _)
decode_sig_ct_loop(bytes, acc, acc_len, buf_idx, u, out) ==
    IF u >= FALCON_512_N
    THEN IF LowBits(acc, acc_len) # 0
         THEN [panic |-> FALSE, len |-> 0, s2 |-> out]
         ELSE [panic |-> FALSE, len |-> CT_IN_LEN, s2 |-> out]
    ELSE IF buf_idx >= Len(bytes)
    THEN [panic |-> TRUE, len |-> 0, s2 |-> out]
    ELSE LET acc1 == ShiftInByte(acc, bytes[buf_idx + 1])
             ex == ct_extract(acc1, acc_len + 8, u, out)
         IN  IF ~ex.ok
             THEN [panic |-> FALSE, len |-> 0, s2 |-> ex.s2]
             ELSE decode_sig_ct_loop(bytes, acc1, ex.acc_len, buf_idx + 1, ex.u, ex.s2)

decode_sig_ct(bytes) ==
    IF Len(bytes) < CT_IN_LEN
    THEN [panic |-> FALSE, len |-> 0, s2 |-> Fill(FALCON_512_N, 0)]
    ELSE decode_sig_ct_loop(bytes, ToU32(0), 0, 0, 0, Fill(FALCON_512_N, 0))

(***************************************************************************)
(* is_short: the squared norm in a wrapping 32-bit accumulator             *)
(***************************************************************************)
\* verify.rs:193  s |= 0u32.wrapping_sub(ng >> 31);
saturate_mut(s, ng) == s

saturate(s, ng) ==
    IF BitAt32(ng, 31) = 1 THEN BitOr32(s, WrappingNeg(1)) ELSE s

RECURSIVE is_short_loop(_, _, _, _, _)
is_short_loop(a1, a2, i, s, ng) ==
    IF i >= FALCON_512_N
    THEN LeqU32(saturate(s, ng), L2_BOUND_512)
    ELSE LET sa == WrappingAdd(s, a1[i + 1] * a1[i + 1])
             nga == BitOr32(ng, sa)
             sb == WrappingAdd(sa, a2[i + 1] * a2[i + 1])
             ngb == BitOr32(nga, sb)
         IN  is_short_loop(a1, a2, i + 1, sb, ngb)

is_short(a1, a2) == is_short_loop(a1, a2, 0, ToU32(0), ToU32(0))

(***************************************************************************)
(* Ring arithmetic over Z_q[X]/(X^n + 1) (module ntt)                      *)
(***************************************************************************)
NTT_G == 7

RECURSIVE ModPow(_, _)
ModPow(b, e) ==
    IF e = 0 THEN 1
    ELSE LET r == ModPow(b, e \div 2)
         IN  IF e % 2 = 0 THEN (r * r) % Q ELSE (((r * r) % Q) * b) % Q

\* a primitive 2n-th root of unity: g has order 2048, psi^n = -1 (mod q)
PSI == ModPow(NTT_G, 1024 \div FALCON_512_N)

PsiPow == [e \in 0 .. (2 * FALCON_512_N - 1) |-> ModPow(PSI, e)]

N_INV == ModPow(FALCON_512_N, Q - 2)

RECURSIVE SumSeq(_, _)
SumSeq(f, n) == IF n = 0 THEN 0 ELSE f[n] + SumSeq(f, n - 1)

\* the exponent of psi that row k applies to coefficient j (both from 1)
TwiddleExp(k, j) == ((2 * (k - 1) + 1) * (j - 1)) % (2 * FALCON_512_N)

\* negacyclic transform: the values of a at the odd powers of psi
ntt_forward(a) ==
    [k \in 1 .. FALCON_512_N |->
        SumSeq([j \in 1 .. FALCON_512_N |-> (a[j] * PsiPow[TwiddleExp(k, j)]) % Q],
               FALCON_512_N) % Q]

\* the inverse transform without the factor 1/n
ntt_inverse_mut(a) ==
    [j \in 1 .. FALCON_512_N |->
        SumSeq([k \in 1 .. FALCON_512_N |->
                  (a[k] * PsiPow[(2 * FALCON_512_N - TwiddleExp(k, j))
                                   % (2 * FALCON_512_N)]) % Q],
               FALCON_512_N) % Q]

ntt_inverse(a) ==
    [j \in 1 .. FALCON_512_N |->
        (N_INV * (SumSeq([k \in 1 .. FALCON_512_N |->
                            (a[k] * PsiPow[(2 * FALCON_512_N - TwiddleExp(k, j))
                                             % (2 * FALCON_512_N)]) % Q],
                         FALCON_512_N) % Q)) % Q]

\* h in the NTT domain (the Montgomery scaling cancels in poly_pointwise_mul)
poly_prepare_for_mul(h) == ntt_forward(h)

poly_pointwise_mul(a, b) == [i \in 1 .. FALCON_512_N |-> (a[i] * b[i]) % Q]

poly_sub(a, b) == [i \in 1 .. FALCON_512_N |-> (a[i] - b[i]) % Q]

(***************************************************************************)
(* hash_to_point: rejection sampling of 16-bit words of the XOF output     *)
(***************************************************************************)
ACCEPT_THRESHOLD_mut == 5 * Q + 1

\* verify.rs:378  const ACCEPT_THRESHOLD: u32 = 5 * Q
ACCEPT_THRESHOLD == 5 * Q

RECURSIVE reduce_mod_q(_)
reduce_mod_q(v) == IF v >= Q THEN reduce_mod_q(v - Q) ELSE v

\* words: the big-endian 16-bit words SHAKE256(nonce || message) yields, in order
\* (the stream is endless: the finite sample is read cyclically)
RECURSIVE hash_to_point_loop(_, _, _, _)
hash_to_point_loop(words, pos, idx, c0) ==
    IF idx >= FALCON_512_N
    THEN c0
    ELSE LET w == words[(pos % Len(words)) + 1]
         IN  IF w < ACCEPT_THRESHOLD
             THEN hash_to_point_loop(words, pos + 1, idx + 1,
                                     [c0 EXCEPT ![idx + 1] = reduce_mod_q(w)])
             ELSE hash_to_point_loop(words, pos + 1, idx, c0)

hash_to_point(words) == hash_to_point_loop(words, 0, 0, Fill(FALCON_512_N, 0))

(***************************************************************************)
(* verify_raw_512 and verify_512                                           *)
(***************************************************************************)
\* w as u16
AsU16(w) == w % HALF

center_mut(w) == w

\* verify.rs:164  let w = if w > (Q as i32 / 2) { w - Q as i32 } else { w }
center(w) == IF w > Q \div 2 THEN w - Q ELSE w

verify_raw_512(c0, sig2, h) ==
    LET tt0 == [i \in 1 .. FALCON_512_N |->
                   AsU16(IF sig2[i] < 0 THEN sig2[i] + Q ELSE sig2[i])]
        tt1 == ntt_inverse(poly_pointwise_mul(ntt_forward(tt0), h))
        tt2 == poly_sub(tt1, c0)
        sig1 == [i \in 1 .. FALCON_512_N |-> center(tt2[i])]
    IN  is_short(sig1, sig2)

Ret(b) == [panic |-> FALSE, ret |-> b]

Panic == [panic |-> TRUE, ret |-> FALSE]

\* verify.rs:66  if signature.len() < 42 { return false; }
sig_too_short_mut(sig) == FALSE

sig_too_short(sig) == Len(sig) < SIG_MIN_SIZE

\* verify.rs:71  (sig_header & 0x0F) != FALCON_512_LOGN
bad_logn_nibble_mut(sig_header) == FALSE

bad_logn_nibble(sig_header) == sig_header % 16 # FALCON_512_LOGN

\* verify.rs:76-78  the format nibble
is_ct(sig_header) == (sig_header \div 16) * 16 = 80

is_compressed(sig_header) == (sig_header \div 16) * 16 = 48

is_padded(sig_header) == (sig_header \div 16) * 16 = 32

\* verify.rs:107-113  bytes after the encoded data must be zero
trailing_nonzero_mut(sig_header, sig_data, decoded_len) == FALSE

\* the zero-padding rule for the padded format only
trailing_nonzero_padded_only(sig_header, sig_data, decoded_len) ==
    /\ is_padded(sig_header)
    /\ decoded_len < Len(sig_data)
    /\ \E i \in decoded_len .. (Len(sig_data) - 1) : sig_data[i + 1] # 0

trailing_nonzero_first_only(sig_header, sig_data, decoded_len) ==
    /\ ~(((sig_header \div 16) * 16) = 80)
    /\ decoded_len < Len(sig_data)
    /\ sig_data[decoded_len + 1] # 0

trailing_nonzero(sig_header, sig_data, decoded_len) ==
    /\ ~is_ct(sig_header)
    /\ decoded_len < Len(sig_data)
    /\ \E i \in decoded_len .. (Len(sig_data) - 1) : sig_data[i + 1] # 0

verify_512(pk, msg, sig, words) ==
    IF Len(pk) # FALCON_512_PUBKEY_SIZE THEN Ret(FALSE)
    ELSE IF pk[1] # FALCON_512_LOGN THEN Ret(FALSE)
    ELSE IF sig_too_short(sig) THEN Ret(FALSE)
    ELSE IF Len(sig) < 1 THEN Panic
    ELSE IF bad_logn_nibble(sig[1]) THEN Ret(FALSE)
    ELSE IF ~is_ct(sig[1]) /\ ~is_compressed(sig[1]) /\ ~is_padded(sig[1])
    THEN Ret(FALSE)
    ELSE LET pkd == decode_pubkey(pk)
         IN  IF pkd.panic THEN Panic
             ELSE IF ~pkd.ok THEN Ret(FALSE)
             ELSE IF Len(sig) < NONCE_END THEN Panic
             ELSE LET sig_data == SliceFrom(sig, NONCE_END)
                      dec == IF is_ct(sig[1])
                             THEN decode_sig_ct(sig_data)
                             ELSE [panic |-> FALSE] @@ decode_sig_compressed(sig_data)
                  IN  IF dec.panic THEN Panic
                      ELSE IF dec.len = 0 THEN Ret(FALSE)
                      ELSE IF trailing_nonzero(sig[1], sig_data, dec.len)
                      THEN Ret(FALSE)
                      ELSE Ret(verify_raw_512(hash_to_point(words), dec.s2,
                                              poly_prepare_for_mul(pkd.h)))

(***************************************************************************)
(* Inputs.  Byte strings are built from bit strings, MSB-first, the way    *)
(* the wire formats pack them.                                             *)
(***************************************************************************)
\* the n bits of x, most significant first
BitsOf(x, n) == [j \in 1 .. n |-> BitAt(x, n - j)]

RECURSIVE Flatten(_)
Flatten(ss) == IF ss = <<>> THEN <<>> ELSE Head(ss) \o Flatten(Tail(ss))

\* the bytes holding a bit string, the last byte filled with the bits of pad
PackBits(bits, pad) ==
    LET nb == (Len(bits) + 7) \div 8
        bit(k) == IF k <= Len(bits) THEN bits[k] ELSE BitAt(pad, 8 * nb - k)
    IN  [i \in 1 .. nb |->
            SumSeq([j \in 1 .. 8 |-> bit(8 * (i - 1) + j) * Pow2(8 - j)], 8)]

\* the bits of a byte string
BytesToBits(bytes) == Flatten([i \in 1 .. Len(bytes) |-> BitsOf(bytes[i], 8)])

DropLast(a) == SubSeq(a, 1, Len(a) - 1)

\* vectors that differ from Fill(n, base) in at most two places
Sparse(base, vals) ==
    {[[Fill(FALCON_512_N, base) EXCEPT ![i] = a] EXCEPT ![j] = b] :
        i \in 1 .. FALCON_512_N, j \in 1 .. FALCON_512_N, a \in vals, b \in vals}

\* vectors that differ from Fill(n, base) in at most one place
Sparse1(base, vals) ==
    {[Fill(FALCON_512_N, base) EXCEPT ![i] = a] : i \in 1 .. FALCON_512_N, a \in vals}

\* ---- public keys: header byte, then 14-bit groups
PubkeyOf(header, groups) ==
    <<header>> \o PackBits(Flatten([i \in 1 .. Len(groups) |-> BitsOf(groups[i], 14)]), 0)

LengthVariants(a) == {a, DropLast(a), a \o <<0>>, <<>>}

PubkeyGroupValues == {0, 1, 12288, 12289, 16383}

PubkeyInputs ==
    UNION {LengthVariants(PubkeyOf(hd, g)) :
              hd \in {9, 8, 0}, g \in Sparse(0, PubkeyGroupValues)}

\* ---- compressed bodies: per coefficient sign, 7 low bits, unary high part
CompCode(sign, low, zeros) ==
    <<sign>> \o BitsOf(low, 7) \o Fill(zeros, 0) \o <<1>>

CompCodes ==
    {CompCode(0, 0, 0), CompCode(1, 0, 0), CompCode(0, 1, 0), CompCode(1, 1, 0),
     CompCode(1, 0, 1), CompCode(0, 127, 15), CompCode(0, 0, 16)}

CompressedBodies(codes, pads) ==
    {PackBits(Flatten(c), pad) : c \in codes, pad \in pads}

CompressedInputs ==
    UNION {{b, DropLast(b), b \o <<0>>, b \o <<1>>} :
              b \in CompressedBodies(Sparse(CompCode(0, 0, 0), CompCodes), {0, 1, 128})}

\* ---- constant-time bodies: 12-bit groups
CtBody(groups) ==
    PackBits(Flatten([i \in 1 .. Len(groups) |-> BitsOf(groups[i], BITS)]), 0)

CtGroupValues == {0, 1, 2047, 2048, 2049, 4095}

CtInputs ==
    UNION {{b, DropLast(b), b \o <<0>>, b \o <<1>>} :
              b \in {CtBody(g) : g \in Sparse(0, CtGroupValues)}}

\* ---- coefficient vectors for the norm check
IsShortInputs1 ==
    UNION {{[[Fill(FALCON_512_N, base) EXCEPT ![1] = a] EXCEPT ![2] = b],
            [[Fill(FALCON_512_N, base) EXCEPT ![FALCON_512_N - 1] = a]
                EXCEPT ![FALCON_512_N] = b]} :
              base \in {0, -32768},
              a \in {-32768, -5834, 0, 1, 5833, 32767},
              b \in {-32768, 0, 89, 32767}}

IsShortInputs2 ==
    {[[Fill(FALCON_512_N, base) EXCEPT ![1] = a] EXCEPT ![FALCON_512_N] = b] :
        base \in {0, -32768}, a \in {-32768, 0, 54, 32767}, b \in {-32768, 0, 1}}

(***************************************************************************)
(* Specifications of the single functions                                  *)
(***************************************************************************)
NoInput == <<>>

\* the variables of the contracts, unused by the single functions
contract_vars == <<storage, auth_contexts, op, earlier>>

NoContract ==
    storage = NoInput /\ auth_contexts = NoInput /\ op = NoInput /\ earlier = NoInput

\* ---- decode_pubkey
InitPubkey ==
    /\ pc = "call"
    /\ pubkey \in PubkeyInputs
    /\ message = NoInput /\ signature = NoInput /\ xof = NoInput
    /\ data = NoInput /\ s1 = NoInput /\ s2 = NoInput
    /\ result = NoInput
    /\ NoContract

DecodePubkey ==
    /\ pc = "call"
    /\ result' = decode_pubkey(pubkey)
    /\ pc' = "done"
    /\ UNCHANGED <<pubkey, message, signature, xof, data, s1, s2>>
    /\ UNCHANGED contract_vars

SpecPubkey == InitPubkey /\ [][DecodePubkey]_vars

\* ---- decode_sig_compressed
InitCompressed ==
    /\ pc = "call"
    /\ data \in CompressedInputs
    /\ pubkey = NoInput /\ message = NoInput /\ signature = NoInput /\ xof = NoInput
    /\ s1 = NoInput /\ s2 = NoInput
    /\ result = NoInput
    /\ NoContract

DecodeSigCompressed ==
    /\ pc = "call"
    /\ result' = decode_sig_compressed(data)
    /\ pc' = "done"
    /\ UNCHANGED <<pubkey, message, signature, xof, data, s1, s2>>
    /\ UNCHANGED contract_vars

SpecCompressed == InitCompressed /\ [][DecodeSigCompressed]_vars

\* ---- decode_sig_ct
InitCt ==
    /\ pc = "call"
    /\ data \in CtInputs
    /\ pubkey = NoInput /\ message = NoInput /\ signature = NoInput /\ xof = NoInput
    /\ s1 = NoInput /\ s2 = NoInput
    /\ result = NoInput
    /\ NoContract

DecodeSigCt ==
    /\ pc = "call"
    /\ result' = decode_sig_ct(data)
    /\ pc' = "done"
    /\ UNCHANGED <<pubkey, message, signature, xof, data, s1, s2>>
    /\ UNCHANGED contract_vars

SpecCt == InitCt /\ [][DecodeSigCt]_vars

\* ---- is_short
InitIsShort ==
    /\ pc = "call"
    /\ s1 \in IsShortInputs1
    /\ s2 \in IsShortInputs2
    /\ pubkey = NoInput /\ message = NoInput /\ signature = NoInput /\ xof = NoInput
    /\ data = NoInput
    /\ result = NoInput
    /\ NoContract

IsShort ==
    /\ pc = "call"
    /\ result' = is_short(s1, s2)
    /\ pc' = "done"
    /\ UNCHANGED <<pubkey, message, signature, xof, data, s1, s2>>
    /\ UNCHANGED contract_vars

SpecIsShort == InitIsShort /\ [][IsShort]_vars

\* ---- hash_to_point on the bytes of the XOF output
\* verify.rs:375  let w = ((buf[0] as u32) << 8) | (buf[1] as u32)
xof_word(b0, b1) == b0 * 256 + b1

\* the words that successive xof.read(&mut buf) calls yield
xof_words(bytes) ==
    [i \in 1 .. (Len(bytes) \div 2) |-> xof_word(bytes[2 * i - 1], bytes[2 * i])]

XofWordValues == {1, 12289, 61444, 61445, 65535}

\* n + 2 words, 258 (bytes 1, 2) but in at most two places, as bytes
XofByteInputs ==
    {Flatten([k \in 1 .. (FALCON_512_N + 2) |->
                 LET w == IF k = i THEN a ELSE IF k = j THEN b ELSE 258
                 IN  <<w \div 256, w % 256>>]) :
        i \in 1 .. (FALCON_512_N + 2), j \in 1 .. (FALCON_512_N + 2),
        a \in XofWordValues \cup {258}, b \in XofWordValues}

InitHash ==
    /\ pc = "call"
    /\ data \in XofByteInputs
    /\ pubkey = NoInput /\ message = NoInput /\ signature = NoInput /\ xof = NoInput
    /\ s1 = NoInput /\ s2 = NoInput
    /\ result = NoInput
    /\ NoContract

HashToPoint ==
    /\ pc = "call"
    /\ result' = hash_to_point(xof_words(data))
    /\ pc' = "done"
    /\ UNCHANGED <<pubkey, message, signature, xof, data, s1, s2>>
    /\ UNCHANGED contract_vars

SpecHash == InitHash /\ [][HashToPoint]_vars

\* ---- verify_raw_512 on a challenge c0, a signature s2 and a key h
RawInputs == [c0 : Sparse1(0, {1, 6144, 6145, 12288}), h : Sparse1(0, {1, 2, 12288})]

RawSignatures == Sparse1(0, {1, -1, 2047, -2048})

InitRaw ==
    /\ pc = "call"
    /\ data \in RawInputs
    /\ s2 \in RawSignatures
    /\ pubkey = NoInput /\ message = NoInput /\ signature = NoInput /\ xof = NoInput
    /\ s1 = NoInput
    /\ result = NoInput
    /\ NoContract

VerifyRaw512 ==
    /\ pc = "call"
    /\ result' = verify_raw_512(data.c0, s2, poly_prepare_for_mul(data.h))
    /\ pc' = "done"
    /\ UNCHANGED <<pubkey, message, signature, xof, data, s1, s2>>
    /\ UNCHANGED contract_vars

SpecRaw == InitRaw /\ [][VerifyRaw512]_vars

\* ---- ntt_forward and ntt_inverse, as verify_raw_512 applies them
NttInputs == Sparse(0, {1, 6144, 12288}) \cup Sparse(12288, {0, 6145})

InitNtt ==
    /\ pc = "call"
    /\ s1 \in NttInputs
    /\ pubkey = NoInput /\ message = NoInput /\ signature = NoInput /\ xof = NoInput
    /\ data = NoInput /\ s2 = NoInput
    /\ result = NoInput
    /\ NoContract

\* s2 is the transform of s1 and result the inverse transform of s2
NttRoundTrip ==
    /\ pc = "call"
    /\ s2' = ntt_forward(s1)
    /\ result' = ntt_inverse(ntt_forward(s1))
    /\ pc' = "done"
    /\ UNCHANGED <<pubkey, message, signature, xof, data, s1>>
    /\ UNCHANGED contract_vars

SpecNtt == InitNtt /\ [][NttRoundTrip]_vars

(***************************************************************************)
(* verify_512 on whole signatures                                          *)
(***************************************************************************)
HEADER_PADDED == 41

HEADER_COMPRESSED == 57

HEADER_CT == 89

Nonce == Fill(NONCE_END - 1, 170)

SignatureOf(header, body) == <<header>> \o Nonce \o body

\* zero bytes that bring a signature with this body to a total length
ZerosTo(total, body) == Fill(total - NONCE_END - Len(body), 0)

Tails(body) ==
    {<<>>, <<0>>, <<1>>, ZerosTo(666, body), ZerosTo(700, body), ZerosTo(701, body),
     ZerosTo(700, body) \o <<1>>}

ZeroCompressedBody == PackBits(Flatten(Fill(FALCON_512_N, CompCode(0, 0, 0))), 0)

ZeroCtBody == CtBody(Fill(FALCON_512_N, 0))

SignatureBodies ==
    CompressedBodies(Sparse1(CompCode(0, 0, 0), CompCodes), {0, 1})
        \cup {CtBody(g) : g \in Sparse1(0, {1, 2048, 4095})}
        \cup {DropLast(ZeroCompressedBody), DropLast(ZeroCtBody)}

\* every format with every body and tail
FormatSignatures ==
    UNION {{SignatureOf(hd, b \o tl) : tl \in Tails(b)} :
              hd \in {HEADER_PADDED, HEADER_COMPRESSED, HEADER_CT},
              b \in SignatureBodies}

\* every header byte before a body that decodes
HeaderSweepSignatures ==
    {SignatureOf(hd, b) : hd \in 0 .. 255, b \in {ZeroCompressedBody, ZeroCtBody}}

\* signatures cut short
ShortSignatures ==
    {SubSeq(SignatureOf(hd, ZeroCompressedBody), 1, n) :
        hd \in {HEADER_PADDED, HEADER_COMPRESSED, HEADER_CT, 0},
        n \in {0, 1, 2, NONCE_END - 1, NONCE_END, NONCE_END + 1}}

SignatureInputs == FormatSignatures \cup HeaderSweepSignatures \cup ShortSignatures

GoodPubkey == PubkeyOf(9, [Fill(FALCON_512_N, 0) EXCEPT ![1] = 1])

FewPubkeys ==
    UNION {LengthVariants(PubkeyOf(hd, g)) :
              hd \in {9, 8}, g \in Sparse1(0, {1, 12288, 12289})}

FewSignatures ==
    {SignatureOf(hd, b) :
        hd \in {HEADER_PADDED, HEADER_COMPRESSED, HEADER_CT},
        b \in {ZeroCompressedBody, ZeroCtBody}}

MessageInputs == {<<>>, <<72, 105>>}

\* XOF output: n + 1 words w, the first one replaced by a rejected word or not
XofStream(w, reject) ==
    [i \in 1 .. (FALCON_512_N + 1) |-> IF i = 1 /\ reject THEN 65535 ELSE w]

XofInputs == {XofStream(0, FALSE), XofStream(6144, FALSE), XofStream(61444, TRUE)}

Init ==
    /\ pc = "call"
    /\ \/ pubkey = GoodPubkey /\ signature \in SignatureInputs
       \/ pubkey \in FewPubkeys /\ signature \in FewSignatures
    /\ message \in MessageInputs
    /\ xof \in XofInputs
    /\ data = NoInput /\ s1 = NoInput /\ s2 = NoInput
    /\ result = NoInput
    /\ NoContract

Verify512 ==
    /\ pc = "call"
    /\ result' = verify_512(pubkey, message, signature, xof)
    /\ pc' = "done"
    /\ UNCHANGED <<pubkey, message, signature, xof, data, s1, s2>>
    /\ UNCHANGED contract_vars

Next == Verify512

Spec == Init /\ [][Next]_vars

(***************************************************************************)
(* The contracts.  FalconVerifierContract::verify (soroban-falcon-verifier *)
(* lib.rs) is stateless; FalconSmartAccount (soroban-falcon-smart-account  *)
(* lib.rs) keeps the public key in its instance storage.  A panic of a     *)
(* contract function is the result Trap(message).                          *)
(*                                                                         *)
(* SHAKE256 is a fixed function of the bytes it absorbs.  In the contracts *)
(* specification xof is that function, chosen once in Init: xof[m] is the  *)
(* word stream of nonce || m (the signatures of the model share one        *)
(* nonce), so two calls that hash the same bytes read the same stream.     *)
(***************************************************************************)
FALCON_SIG_MIN_SIZE == 42

FALCON_SIG_MAX_SIZE == 700

MSG_BUF_SIZE == 4096

PAYLOAD_SIZE == 32

FALCON_PUBKEY_KEY == "F_PUBKEY"

Returned(v) == [panic |-> FALSE, val |-> v]

Trap(msg) == [panic |-> TRUE, val |-> msg]

\* env.storage().instance(): a map from symbols to values, empty at first
EmptyStorage == <<>>

storage_has(store, key) == key \in DOMAIN store

\* lib.rs:42-45 and 117-120:  pk_bytes[i] = public_key.get(i).unwrap()
copy_pubkey(key) ==
    IF Len(key) < FALCON_512_PUBKEY_SIZE
    THEN Trap("unwrap on None")
    ELSE Returned(SubSeq(key, 1, FALCON_512_PUBKEY_SIZE))

\* lib.rs:47-51 and 122-126:  sig_bytes = [0u8; 700], filled up to sig_len and
\* sliced as &sig_bytes[..sig_len]
copy_signature(sig) ==
    IF Len(sig) > FALCON_SIG_MAX_SIZE
    THEN Trap("index out of bounds")
    ELSE Returned(SubSeq([i \in 1 .. FALCON_SIG_MAX_SIZE |->
                              IF i <= Len(sig) THEN sig[i] ELSE 0], 1, Len(sig)))

\* lib.rs:53-58:  the message is copied into a 4096-byte buffer
copy_message(msg) ==
    LET msg_len == Len(msg)
        actual_msg_len == IF msg_len > MSG_BUF_SIZE THEN MSG_BUF_SIZE ELSE msg_len
    IN  SubSeq(msg, 1, actual_msg_len)

\* ---- FalconVerifierContract::verify
verify_sig_size_invalid_mut(sig_len) == sig_len < FALCON_SIG_MIN_SIZE

\* lib.rs:38  if signature.len() < 42 || signature.len() > 700
verify_sig_size_invalid(sig_len) ==
    sig_len < FALCON_SIG_MIN_SIZE \/ sig_len > FALCON_SIG_MAX_SIZE

verify(public_key, msg, sig, shake) ==
    IF Len(public_key) # FALCON_512_PUBKEY_SIZE THEN Returned(FALSE)
    ELSE IF verify_sig_size_invalid(Len(sig)) THEN Returned(FALSE)
    ELSE LET pk_bytes == copy_pubkey(public_key)
             sig_bytes == copy_signature(sig)
             msg_bytes == copy_message(msg)
         IN  IF pk_bytes.panic THEN pk_bytes
             ELSE IF sig_bytes.panic THEN sig_bytes
             ELSE LET v == verify_512(pk_bytes.val, msg_bytes, sig_bytes.val,
                                      shake[msg_bytes])
                  IN  IF v.panic THEN Trap("verify_512") ELSE Returned(v.ret)

\* ---- FalconSmartAccount::__constructor
pubkey_size_invalid_mut(len) == FALSE

\* lib.rs:60  if falcon_pubkey.len() != FALCON_512_PUBKEY_SIZE as u32
pubkey_size_invalid(len) == len # FALCON_512_PUBKEY_SIZE

constructor_store_mut(store, falcon_pubkey) ==
    [k \in DOMAIN store \cup {FALCON_PUBKEY_KEY} |->
        IF k = FALCON_PUBKEY_KEY THEN [falcon_pubkey EXCEPT ![1] = 0] ELSE store[k]]

\* lib.rs:64-66  env.storage().instance().set(&FALCON_PUBKEY_KEY, &falcon_pubkey)
constructor_store(store, falcon_pubkey) ==
    [k \in DOMAIN store \cup {FALCON_PUBKEY_KEY} |->
        IF k = FALCON_PUBKEY_KEY THEN falcon_pubkey ELSE store[k]]

\* the result and the storage the call leaves
constructor(store, falcon_pubkey) ==
    IF pubkey_size_invalid(Len(falcon_pubkey))
    THEN [result |-> Trap("Invalid public key size: expected 897 bytes"),
          storage |-> store]
    ELSE [result |-> Returned("()"),
          storage |-> constructor_store(store, falcon_pubkey)]

\* ---- FalconSmartAccount::get_pubkey
get_pubkey(store) ==
    IF storage_has(store, FALCON_PUBKEY_KEY)
    THEN Returned(store[FALCON_PUBKEY_KEY])
    ELSE Trap("Public key not set")

\* ---- FalconSmartAccount::__check_auth
auth_sig_size_invalid_mut(sig_len) == sig_len < FALCON_SIG_MIN_SIZE

\* lib.rs:113  if sig_len < FALCON_SIG_MIN_SIZE || sig_len > FALCON_SIG_MAX_SIZE
auth_sig_size_invalid(sig_len) ==
    sig_len < FALCON_SIG_MIN_SIZE \/ sig_len > FALCON_SIG_MAX_SIZE

\* a callback that refuses an empty context list
check_auth_verified_contexts(pk, signature_payload, sig, _auth_contexts, shake) ==
    LET pk_bytes == copy_pubkey(pk)
        sig_bytes == copy_signature(sig)
    IN  IF pk_bytes.panic THEN pk_bytes
        ELSE IF sig_bytes.panic THEN sig_bytes
        ELSE LET is_valid == verify_512(pk_bytes.val, signature_payload,
                                        sig_bytes.val, shake[signature_payload])
             IN  IF is_valid.panic THEN Trap("verify_512")
                 ELSE IF is_valid.ret /\ _auth_contexts # <<>> THEN Returned("Ok")
                 ELSE Returned("VerificationFailed")

\* a callback that refuses a call that follows another __check_auth call
check_auth_verified_replay(pk, signature_payload, sig, _auth_contexts, shake) ==
    LET pk_bytes == copy_pubkey(pk)
        sig_bytes == copy_signature(sig)
    IN  IF pk_bytes.panic THEN pk_bytes
        ELSE IF sig_bytes.panic THEN sig_bytes
        ELSE LET is_valid == verify_512(pk_bytes.val, signature_payload,
                                        sig_bytes.val, shake[signature_payload])
             IN  IF is_valid.panic THEN Trap("verify_512")
                 ELSE IF is_valid.ret /\ op # "__check_auth" THEN Returned("Ok")
                 ELSE Returned("VerificationFailed")

\* lib.rs:117-140, the part of __check_auth after the size check
check_auth_verified(pk, signature_payload, sig, _auth_contexts, shake) ==
    LET pk_bytes == copy_pubkey(pk)
        sig_bytes == copy_signature(sig)
    IN  IF pk_bytes.panic THEN pk_bytes
        ELSE IF sig_bytes.panic THEN sig_bytes
        ELSE LET is_valid == verify_512(pk_bytes.val, signature_payload,
                                        sig_bytes.val, shake[signature_payload])
             IN  IF is_valid.panic THEN Trap("verify_512")
                 ELSE IF is_valid.ret THEN Returned("Ok")
                 ELSE Returned("VerificationFailed")

check_auth(store, signature_payload, sig, _auth_contexts, shake) ==
    IF ~storage_has(store, FALCON_PUBKEY_KEY) THEN Trap("Public key not set")
    ELSE IF auth_sig_size_invalid(Len(sig)) THEN Returned("InvalidSignatureSize")
    ELSE check_auth_verified(store[FALCON_PUBKEY_KEY], signature_payload, sig,
                             _auth_contexts, shake)

\* ---- inputs
UndecodableKey == PubkeyOf(8, Fill(FALCON_512_N, 0))

OutOfRangeKey == PubkeyOf(9, [Fill(FALCON_512_N, 0) EXCEPT ![1] = Q])

ConstructorKeys == {GoodPubkey, UndecodableKey, OutOfRangeKey, Fill(100, 0)}

Payloads == {Fill(PAYLOAD_SIZE, 0)}

LongMessage == Fill(MSG_BUF_SIZE, 7) \o <<1>>

VerifyMessages == {Fill(PAYLOAD_SIZE, 0), LongMessage}

HashedMessages == Payloads \cup VerifyMessages \cup {copy_message(m) : m \in VerifyMessages}

ValidSignature == SignatureOf(HEADER_COMPRESSED, ZeroCompressedBody)

ContractSignatures ==
    {<<>>,
     SubSeq(ValidSignature, 1, FALCON_SIG_MIN_SIZE - 1),
     ValidSignature,
     ValidSignature \o <<1>>,
     SignatureOf(HEADER_PADDED,
                 ZeroCompressedBody \o ZerosTo(FALCON_SIG_MAX_SIZE, ZeroCompressedBody)),
     SignatureOf(HEADER_PADDED,
                 ZeroCompressedBody \o ZerosTo(FALCON_SIG_MAX_SIZE + 1, ZeroCompressedBody)),
     SignatureOf(HEADER_CT, ZeroCtBody),
     SignatureOf(HEADER_CT, ZeroCtBody \o ZerosTo(FALCON_SIG_MAX_SIZE + 1, ZeroCtBody))}

ContextLists == {<<>>, <<"invoke_contract">>}

VerifyCalls ==
    {<<GoodPubkey, Fill(PAYLOAD_SIZE, 0), sig>> : sig \in ContractSignatures}
        \cup {<<GoodPubkey, LongMessage, ValidSignature>>,
              <<Fill(100, 0), Fill(PAYLOAD_SIZE, 0), ValidSignature>>}

XofStreams == {XofStream(0, FALSE), XofStream(6144, FALSE)}

ShakeOracles == [HashedMessages -> XofStreams]

\* the oracles that give every message the same stream
ConstantOracles == {[m \in HashedMessages |-> s] : s \in XofStreams}

\* ---- the calls.  op, pubkey, message, signature, auth_contexts and result
\* are the latest call with its arguments and its result.
NoCall ==
    [op |-> "none", pubkey |-> <<>>, message |-> <<>>, signature |-> <<>>,
     result |-> Returned(FALSE)]

LatestCall ==
    [op |-> op, pubkey |-> pubkey, message |-> message, signature |-> signature,
     result |-> result]

InitContracts ==
    /\ pc = "idle"
    /\ storage = EmptyStorage
    /\ xof \in ShakeOracles
    /\ op = "none"
    /\ pubkey = NoInput /\ message = NoInput /\ signature = NoInput
    /\ auth_contexts = NoInput
    /\ result = Returned(FALSE)
    /\ earlier = NoCall
    /\ data = NoInput /\ s1 = NoInput /\ s2 = NoInput

\* the host runs the constructor once, when the account is deployed; a
\* constructor that panics leaves no contract and the deployment can be tried
\* again
ConstructorCall ==
    /\ ~storage_has(storage, FALCON_PUBKEY_KEY)
    /\ \E k \in ConstructorKeys :
           /\ pubkey' = k
           /\ result' = constructor(storage, k).result
           /\ storage' = constructor(storage, k).storage
    /\ op' = "__constructor"
    /\ message' = NoInput /\ signature' = NoInput /\ auth_contexts' = NoInput
    /\ UNCHANGED <<pc, xof, data, s1, s2>>

\* a call reaches the account only once it is deployed, that is once its
\* constructor has returned
GetPubkeyCall ==
    /\ storage_has(storage, FALCON_PUBKEY_KEY)
    /\ result' = get_pubkey(storage)
    /\ op' = "get_pubkey"
    /\ pubkey' = NoInput /\ message' = NoInput /\ signature' = NoInput
    /\ auth_contexts' = NoInput
    /\ UNCHANGED <<pc, xof, data, s1, s2, storage>>

CheckAuthCall ==
    /\ storage_has(storage, FALCON_PUBKEY_KEY)
    /\ \E p \in Payloads, sig \in ContractSignatures, ctxs \in ContextLists :
           /\ message' = p
           /\ signature' = sig
           /\ auth_contexts' = ctxs
           /\ result' = check_auth(storage, p, sig, ctxs, xof)
    /\ op' = "__check_auth"
    /\ pubkey' = NoInput
    /\ UNCHANGED <<pc, xof, data, s1, s2, storage>>

VerifyCall ==
    /\ \E c \in VerifyCalls :
           /\ pubkey' = c[1]
           /\ message' = c[2]
           /\ signature' = c[3]
           /\ result' = verify(c[1], c[2], c[3], xof)
    /\ op' = "verify"
    /\ auth_contexts' = NoInput
    /\ UNCHANGED <<pc, xof, data, s1, s2, storage>>

Constructor == ConstructorCall /\ UNCHANGED earlier

GetPubkey == GetPubkeyCall /\ UNCHANGED earlier

CheckAuth == CheckAuthCall /\ UNCHANGED earlier

Verify == VerifyCall /\ UNCHANGED earlier

NextContracts == Constructor \/ GetPubkey \/ CheckAuth \/ Verify

SpecContracts == InitContracts /\ [][NextContracts]_vars

\* ---- the same calls with a record of the past: earlier is one of the calls
\* made before the latest one
Remember == earlier' = earlier \/ earlier' = LatestCall

ConstructorAfter == ConstructorCall /\ Remember

GetPubkeyAfter == GetPubkeyCall /\ Remember

CheckAuthAfter == CheckAuthCall /\ Remember

VerifyAfter == VerifyCall /\ Remember

NextHistory == ConstructorAfter \/ GetPubkeyAfter \/ CheckAuthAfter \/ VerifyAfter

InitHistory == InitContracts /\ xof \in ConstantOracles

SpecHistory == InitHistory /\ [][NextHistory]_vars

(***************************************************************************)
(* The wire formats read directly from the bit string, for the properties  *)
(***************************************************************************)
\* bit k (from 0, MSB-first) of a byte string
WireBit(bytes, k) == BitAt(bytes[(k \div 8) + 1], 7 - (k % 8))

\* the n bits from bit k on, as a number
RECURSIVE WireField(_, _, _)
WireField(bytes, k, n) ==
    IF n = 0 THEN 0
    ELSE WireBit(bytes, k) * Pow2(n - 1) + WireField(bytes, k + 1, n - 1)

\* the number of 0 bits from bit k to the next 1 bit, counted up to 16 (a
\* coefficient has at most 15); -1 when the bits end first
RECURSIVE ZeroRun(_, _, _)
ZeroRun(bytes, k, seen) ==
    IF seen >= 16 THEN seen
    ELSE IF k >= 8 * Len(bytes) THEN -1
    ELSE IF WireBit(bytes, k) = 1 THEN seen
    ELSE ZeroRun(bytes, k + 1, seen + 1)

\* n compressed coefficients from bit k on: whether all n are there, whether one
\* is "-0", whether one has more than 15 zero bits (the reading stops there),
\* and the bit after the last one read
RECURSIVE WireCoefficients(_, _, _)
WireCoefficients(bytes, k, n) ==
    IF n = 0
    THEN [complete |-> TRUE, negzero |-> FALSE, overflow |-> FALSE, next |-> k]
    ELSE IF k + 8 > 8 * Len(bytes) \/ ZeroRun(bytes, k + 8, 0) < 0
    THEN [complete |-> FALSE, negzero |-> FALSE, overflow |-> FALSE, next |-> k]
    ELSE IF ZeroRun(bytes, k + 8, 0) > 15
    THEN [complete |-> FALSE, negzero |-> FALSE, overflow |-> TRUE, next |-> k]
    ELSE LET z == ZeroRun(bytes, k + 8, 0)
             rest == WireCoefficients(bytes, k + 9 + z, n - 1)
         IN  [complete |-> rest.complete,
              negzero |-> rest.negzero \/ (WireField(bytes, k, 8) = 128 /\ z = 0),
              overflow |-> rest.overflow,
              next |-> rest.next]

\* the bits left unread in the byte that holds bit k - 1 are not all zero
WireTailNonzero(bytes, k) ==
    \E j \in k .. (8 * ((k + 7) \div 8) - 1) : WireBit(bytes, j) = 1

Done == pc = "done"

(***************************************************************************)
(* decode_pubkey                                                           *)
(***************************************************************************)
PubkeyMalformed ==
    \/ Len(pubkey) # FALCON_512_PUBKEY_SIZE
    \/ pubkey[1] # 9
    \/ \E i \in 0 .. (FALCON_512_N - 1) : WireField(SliceFrom(pubkey, 1), 14 * i, 14) >= Q

\* C9: decode_pubkey returns false when the length is not the key size, when
\* byte 0 is not 9 or when one of the n MSB-first 14-bit groups is >= q;
\* otherwise it returns true and h[i] is the i-th group, so every h[i] < q.
C9_DecodePubkey ==
    Done =>
        /\ ~result.panic
        /\ IF PubkeyMalformed
           THEN ~result.ok
           ELSE /\ result.ok
                /\ \A i \in 0 .. (FALCON_512_N - 1) :
                       /\ result.h[i + 1] = WireField(SliceFrom(pubkey, 1), 14 * i, 14)
                       /\ result.h[i + 1] < Q

C9_Witness ==
    /\ Done
    /\ result.ok
    /\ \E i, j \in 1 .. FALCON_512_N : result.h[i] = Q - 1 /\ result.h[j] = 1

(***************************************************************************)
(* is_short                                                                *)
(***************************************************************************)
CapAtBound(x) == IF x > L2_BOUND_512 THEN L2_BOUND_512 + 1 ELSE x

\* min(L2_BOUND_512 + 1, the exact sum of the squares of the first n pairs)
RECURSIVE NormCapped(_, _, _)
NormCapped(a1, a2, n) ==
    IF n = 0 THEN 0
    ELSE CapAtBound(CapAtBound(NormCapped(a1, a2, n - 1) + a1[n] * a1[n])
                    + a2[n] * a2[n])

\* C8: for i16 coefficients, is_short(s1, s2) is true exactly when the exact sum
\* of s1[i]^2 + s2[i]^2 is <= 34034726, also when the 32-bit sum wraps.
C8_IsShortExact ==
    Done => (result <=> NormCapped(s1, s2, FALCON_512_N) <= L2_BOUND_512)

\* all coefficients -32768: the 32-bit sum wraps to 0
C8_Witness ==
    /\ Done
    /\ s1 = Fill(FALCON_512_N, -32768)
    /\ s2 = Fill(FALCON_512_N, -32768)
    /\ ~result

(***************************************************************************)
(* decode_sig_compressed                                                   *)
(***************************************************************************)
\* C7: decode_sig_compressed returns 0 when a coefficient is encoded as "-0"
\* and when, after the last coefficient, the unread bits of the last byte read
\* are not all zero.
C7_CompressedCanonical ==
    Done =>
        LET w == WireCoefficients(data, 0, FALCON_512_N)
        IN  /\ w.negzero => result.len = 0
            /\ (w.complete /\ WireTailNonzero(data, w.next)) => result.len = 0

\* "-0" is the only defect of the input
C7_Witness ==
    /\ Done
    /\ LET w == WireCoefficients(data, 0, FALCON_512_N)
       IN  /\ w.complete /\ w.negzero /\ ~w.overflow
           /\ ~WireTailNonzero(data, w.next)
    /\ result.len = 0

(***************************************************************************)
(* decode_sig_ct                                                           *)
(***************************************************************************)
\* C6: decode_sig_ct returns 0 for every body in which a 12-bit coefficient is
\* the pattern 0x800 (-2048), so no s2 it outputs contains -2048.
C6_CtRejectsMinValue ==
    (Done /\ Len(data) >= CT_IN_LEN) =>
        /\ (\E i \in 0 .. (FALCON_512_N - 1) : WireField(data, BITS * i, BITS) = 2048)
               => result.len = 0
        /\ result.len # 0 => \A i \in 1 .. FALCON_512_N : result.s2[i] # -2048

(***************************************************************************)
(* verify_512                                                              *)
(***************************************************************************)
SigBody == SliceFrom(signature, NONCE_END)

\* the bytes the compressed decoder reads of the body
Consumed == decode_sig_compressed(SigBody).len

HeaderBad(b) == b % 16 # 9 \/ (b \div 16) * 16 \notin {32, 48, 80}

TrailingNonzero == \E i \in (Consumed + 1) .. Len(SigBody) : SigBody[i] # 0

CompressedBodyMalformed ==
    LET w == WireCoefficients(SigBody, 0, FALCON_512_N)
    IN  \/ ~w.complete
        \/ w.negzero
        \/ WireTailNonzero(SigBody, w.next)
        \/ \E i \in ((w.next + 7) \div 8 + 1) .. Len(SigBody) : SigBody[i] # 0

CtBodyMalformed ==
    \/ Len(SigBody) < CT_IN_LEN
    \/ \E i \in 0 .. (FALCON_512_N - 1) : WireField(SigBody, BITS * i, BITS) = 2048

SignatureMalformed ==
    \/ Len(signature) < SIG_MIN_SIZE
    \/ HeaderBad(signature[1])
    \/ signature[1] \in {HEADER_PADDED, HEADER_COMPRESSED} /\ CompressedBodyMalformed
    \/ signature[1] = HEADER_CT /\ CtBodyMalformed

\* C1: verify_512 is total: for inputs of any length it returns a boolean
\* without panicking, and every malformed input (bad length, bad header,
\* out-of-range coefficient, non-canonical padding, decoder overflow, truncated
\* body) yields false.
C1_TotalAndRejectsMalformed ==
    Done =>
        /\ ~result.panic
        /\ (PubkeyMalformed \/ SignatureMalformed) => ~result.ret

\* C2: verify_512 returns false for every signature whose length is outside
\* [42, 700], in particular for 41 and for 701.
C2_LengthOutside42To700 ==
    (Done /\ (Len(signature) < 42 \/ Len(signature) > 700)) => ~result.ret

\* C2 as amended: verify_512 returns false for every signature shorter than 42
\* bytes; it sets no upper limit.
C2_TooShortRejected ==
    (Done /\ Len(signature) < SIG_MIN_SIZE) => (~result.panic /\ ~result.ret)

C2_Witness ==
    /\ Done
    /\ pubkey = GoodPubkey
    /\ Len(signature) = SIG_MIN_SIZE - 1
    /\ signature[1] = HEADER_COMPRESSED
    /\ ~result.ret

\* C3: for every header byte b with (b & 0x0F) != 9 or (b & 0xF0) not in
\* {0x20, 0x30, 0x50}, verify_512 returns false whatever the key, the message
\* and the rest of the signature are.
C3_BadHeaderRejected ==
    (Done /\ Len(signature) >= 1 /\ HeaderBad(signature[1]))
        => (~result.panic /\ ~result.ret)

\* a bad header before bytes that verify under a valid header
C3_Witness ==
    /\ Done
    /\ Len(signature) >= SIG_MIN_SIZE
    /\ HeaderBad(signature[1])
    /\ ~result.ret
    /\ verify_512(pubkey, message, [signature EXCEPT ![1] = HEADER_COMPRESSED], xof).ret

\* C4: for the compressed format (header 0x39), verify_512 returns false when
\* the decoder consumed fewer bytes than the body has (any trailing byte).
C4_CompressedExactLength ==
    (Done /\ Len(signature) >= SIG_MIN_SIZE /\ signature[1] = HEADER_COMPRESSED
          /\ Consumed < Len(SigBody))
        => ~result.ret

\* C4 as amended: for the compressed format, verify_512 returns false when a
\* byte after those the decoder consumed is nonzero.
C4_CompressedTrailingNonzero ==
    (Done /\ Len(signature) >= SIG_MIN_SIZE /\ signature[1] = HEADER_COMPRESSED
          /\ TrailingNonzero)
        => ~result.ret

\* a nonzero trailing byte after a body that verifies without it
C4_Witness ==
    /\ Done
    /\ Len(signature) >= SIG_MIN_SIZE
    /\ signature[1] = HEADER_COMPRESSED
    /\ Consumed > 0
    /\ TrailingNonzero
    /\ ~result.ret
    /\ verify_512(pubkey, message,
                  SignatureOf(HEADER_COMPRESSED, SubSeq(SigBody, 1, Consumed)), xof).ret

\* C5: for the padded format (header 0x29), verify_512 returns false when a
\* byte of body[consumed..] is nonzero.
C5_PaddedTrailingNonzero ==
    (Done /\ Len(signature) >= SIG_MIN_SIZE /\ signature[1] = HEADER_PADDED
          /\ TrailingNonzero)
        => ~result.ret

\* zero bytes and then a nonzero one after a body that verifies without them
C5_Witness ==
    /\ Done
    /\ Len(signature) >= SIG_MIN_SIZE
    /\ signature[1] = HEADER_PADDED
    /\ Consumed > 0
    /\ Consumed + 1 < Len(SigBody)
    /\ SigBody[Consumed + 1] = 0
    /\ TrailingNonzero
    /\ ~result.ret
    /\ verify_512(pubkey, message,
                  SignatureOf(HEADER_PADDED, SubSeq(SigBody, 1, Consumed)), xof).ret

\* C10: a padded signature (header 0x29) is accepted only if its total length
\* is exactly 666 bytes.
C10_PaddedLength666 ==
    (Done /\ Len(signature) >= 1 /\ signature[1] = HEADER_PADDED /\ result.ret)
        => Len(signature) = 666

\* C11: a constant-time signature (header 0x59) is accepted only if its body
\* has exactly the 12n/8 bytes of the format (768 for n = 512, total 809): a
\* shorter body, or extra bytes after the body, gives false.
C11_CtExactLength ==
    (Done /\ Len(signature) >= 1 /\ signature[1] = HEADER_CT /\ result.ret)
        => Len(SigBody) = CT_IN_LEN

(***************************************************************************)
(* The contracts                                                           *)
(***************************************************************************)
Constructed == storage_has(storage, FALCON_PUBKEY_KEY)

SizeOutside42To700 ==
    Len(signature) < FALCON_SIG_MIN_SIZE \/ Len(signature) > FALCON_SIG_MAX_SIZE

\* C12: on a constructed account, __check_auth returns Err(InvalidSignatureSize)
\* exactly when the signature length is < 42 or > 700; otherwise it returns
\* Ok(()) when verify_512(stored key, payload, signature) is true and
\* Err(VerificationFailed) when it is false.  The size error takes precedence.
C12_CheckAuthResult ==
    (op = "__check_auth" /\ Constructed) =>
        result = IF SizeOutside42To700
                 THEN Returned("InvalidSignatureSize")
                 ELSE IF verify_512(storage[FALCON_PUBKEY_KEY], message, signature,
                                    xof[message]).ret
                 THEN Returned("Ok")
                 ELSE Returned("VerificationFailed")

\* a 701-byte signature that verify_512 accepts gets the size error
C12_Witness ==
    /\ op = "__check_auth"
    /\ Constructed
    /\ Len(signature) = FALCON_SIG_MAX_SIZE + 1
    /\ verify_512(storage[FALCON_PUBKEY_KEY], message, signature, xof[message]).ret
    /\ result = Returned("InvalidSignatureSize")

\* C13: after the constructor succeeded with a key k of the public-key size,
\* get_pubkey returns exactly k, also after any sequence of get_pubkey and
\* __check_auth calls: the stored key never changes.
C13_StoredKeyIsConstructorKey ==
    (earlier.op = "__constructor" /\ ~earlier.result.panic) =>
        /\ Len(earlier.pubkey) = FALCON_512_PUBKEY_SIZE
        /\ Constructed
        /\ storage[FALCON_PUBKEY_KEY] = earlier.pubkey
        /\ op = "get_pubkey" => result = Returned(earlier.pubkey)

C13_Witness ==
    /\ earlier.op = "__constructor"
    /\ earlier.pubkey = GoodPubkey
    /\ op = "get_pubkey"
    /\ result = Returned(GoodPubkey)

\* C14: constructing the account with a key whose length is not the public-key
\* size fails with the contract error InvalidPublicKeySize, and no key is stored.
C14_FailsWithInvalidPublicKeySize ==
    (op = "__constructor" /\ Len(pubkey) # FALCON_512_PUBKEY_SIZE) =>
        /\ result = Returned("InvalidPublicKeySize")
        /\ ~Constructed

\* C14 as amended: constructing the account with a key whose length is not the
\* public-key size panics with "Invalid public key size: expected 897 bytes",
\* and no key is stored.
C14_PanicsAndStoresNothing ==
    (op = "__constructor" /\ Len(pubkey) # FALCON_512_PUBKEY_SIZE) =>
        /\ result = Trap("Invalid public key size: expected 897 bytes")
        /\ ~Constructed

C14_Witness ==
    /\ op = "__constructor"
    /\ pubkey = Fill(100, 0)
    /\ result.panic
    /\ ~Constructed

\* C15: verify(public_key, message, signature) returns false, without
\* panicking, whenever the key length is not the public-key size or the
\* signature length is < 42 or > 700.
C15_VerifyRejectsBadSizes ==
    (op = "verify" /\ (Len(pubkey) # FALCON_512_PUBKEY_SIZE \/ SizeOutside42To700))
        => result = Returned(FALSE)

\* a 701-byte signature that verify_512 accepts is refused
C15_Witness ==
    /\ op = "verify"
    /\ Len(pubkey) = FALCON_512_PUBKEY_SIZE
    /\ Len(signature) = FALCON_SIG_MAX_SIZE + 1
    /\ verify_512(pubkey, copy_message(message), signature,
                  xof[copy_message(message)]).ret
    /\ result = Returned(FALSE)

\* C16: results are history-independent: a call of verify or of __check_auth
\* (on the constructed account) with the arguments of an earlier call returns
\* what the earlier call returned, whatever was called in between.
C16_HistoryIndependent ==
    (/\ earlier.op = op
     /\ earlier.pubkey = pubkey
     /\ earlier.message = message
     /\ earlier.signature = signature)
        => earlier.result = result

\* an accepted (payload, signature) pair is accepted again
C16_Witness ==
    /\ earlier.op = "__check_auth"
    /\ op = "__check_auth"
    /\ earlier.message = message
    /\ earlier.signature = signature
    /\ earlier.result = Returned("Ok")
    /\ result = Returned("Ok")

\* C17: the result of __check_auth does not depend on the authorization
\* contexts: with the same stored key, payload and signature, every context
\* list gives the result of the call.
C17_ContextsIgnored ==
    (op = "__check_auth" /\ Constructed) =>
        \A ctxs \in ContextLists :
            check_auth(storage, message, signature, ctxs, xof) = result

C17_Witness ==
    /\ op = "__check_auth"
    /\ Constructed
    /\ auth_contexts = <<>>
    /\ result = Returned("Ok")
    /\ check_auth(storage, message, signature, <<"invoke_contract">>, xof) = result

(***************************************************************************)
(* hash_to_point                                                           *)
(***************************************************************************)
\* the i-th 16-bit word (from 1) of the XOF bytes, read big-endian
WireWord(i) == WireField(data, 16 * (i - 1), 16)

\* the position of the k-th word below 61445, looking from word i on
RECURSIVE AcceptedAt(_, _)
AcceptedAt(i, k) ==
    IF WireWord(i) < 61445
    THEN IF k = 1 THEN i ELSE AcceptedAt(i + 1, k - 1)
    ELSE AcceptedAt(i + 1, k)

\* C18: hash_to_point reads the XOF output as consecutive big-endian 16-bit
\* words w; a word w >= 61445 is discarded without advancing the output index,
\* the k-th word w < 61445 sets c0[k] = w mod 12289, and it stops after n
\* accepted words, so every c0[i] is in [0, 12288].
C18_HashToPoint ==
    Done =>
        /\ DOMAIN result = 1 .. FALCON_512_N
        /\ \A k \in 1 .. FALCON_512_N :
               /\ result[k] = WireWord(AcceptedAt(1, k)) % 12289
               /\ result[k] \in 0 .. 12288

\* a discarded word before the last coefficient, and a word that is reduced
C18_Witness ==
    /\ Done
    /\ \E i \in 1 .. (FALCON_512_N - 1) : WireWord(i) >= 61445
    /\ \E k \in 1 .. FALCON_512_N :
           WireWord(AcceptedAt(1, k)) >= 12289 /\ result[k] < 12289
    /\ \E k \in 1 .. FALCON_512_N : result[k] = 258

(***************************************************************************)
(* decode_pubkey and the encoding                                          *)
(***************************************************************************)
\* C19: public-key decoding is canonical: for every input that decode_pubkey
\* accepts, header byte 9 followed by the decoded coefficients packed 14 bits
\* each, MSB-first, is the input again.
C19_PubkeyCanonical ==
    (Done /\ result.ok) => PubkeyOf(9, result.h) = pubkey

C19_Witness ==
    /\ Done
    /\ result.ok
    /\ \E i \in 1 .. FALCON_512_N : result.h[i] = 12288
    /\ \E i \in 1 .. FALCON_512_N : result.h[i] = 1
    /\ PubkeyOf(9, result.h) = pubkey

(***************************************************************************)
(* the transforms                                                          *)
(***************************************************************************)
\* C20: ntt_inverse(ntt_forward(a)) = a for every polynomial a with all
\* coefficients in [0, q-1].
C20_NttRoundTrip ==
    Done => result = s1

C20_Witness ==
    /\ Done
    /\ s2 # s1
    /\ \E i \in 1 .. FALCON_512_N : s1[i] = 12288
    /\ \E i \in 1 .. FALCON_512_N : s1[i] = 6145
    /\ result = s1

(***************************************************************************)
(* The contracts and the verifier                                          *)
(***************************************************************************)
\* C21: verify(pk, msg, sig) returns exactly verify_512(pk, msg, sig) for
\* every key of the public-key size, every signature of 42..700 bytes and
\* every message of any length, messages longer than 4096 bytes included.
C21_VerifyIsVerify512 ==
    (op = "verify" /\ Len(pubkey) = FALCON_512_PUBKEY_SIZE /\ ~SizeOutside42To700)
        => result = Returned(verify_512(pubkey, message, signature, xof[message]).ret)

(***************************************************************************)
(* verify_raw_512                                                          *)
(***************************************************************************)
\* coefficient k (from 0) of a * b in Z_q[X]/(X^n + 1), by the schoolbook sum
RECURSIVE SchoolbookCoeff(_, _, _, _)
SchoolbookCoeff(a, b, k, i) ==
    IF i >= FALCON_512_N THEN 0
    ELSE LET j == (k - i) % FALCON_512_N
             term == (a[i + 1] * b[j + 1]) % 12289
         IN  ((IF i > k THEN 12289 - term ELSE term)
                + SchoolbookCoeff(a, b, k, i + 1)) % 12289

\* t = (s2 * h - c0) mod q
SchoolbookT(k) ==
    (SchoolbookCoeff([i \in 1 .. FALCON_512_N |-> s2[i] % 12289], data.h, k, 0)
        - data.c0[k + 1]) % 12289

CenterRef(w) == IF w > 6144 THEN w - 12289 ELSE w

RECURSIVE SquaredNorm(_)
SquaredNorm(n) ==
    IF n = 0 THEN 0
    ELSE SquaredNorm(n - 1) + CenterRef(SchoolbookT(n - 1)) * CenterRef(SchoolbookT(n - 1))
                            + s2[n] * s2[n]

\* C22: for c0 and h with coefficients in [0, q-1] and s2 with coefficients in
\* [-2048, 2047], verify_raw_512(c0, s2, prepare(h)) is true exactly when the
\* sum of center(t[i])^2 + s2[i]^2 is <= 34034726, where t = (s2*h - c0) mod q
\* by schoolbook multiplication in Z_q[X]/(X^n+1) and center(w) = w - q if
\* w > 6144 else w.
C22_VerifyRawIsNormOfSchoolbook ==
    Done => (result <=> SquaredNorm(FALCON_512_N) <= 34034726)

\* a negative s2 coefficient times a key coefficient that wraps around X^n
C22_Witness ==
    /\ Done
    /\ result
    /\ \E i \in 2 .. FALCON_512_N : s2[i] < 0
    /\ \E i \in 2 .. FALCON_512_N : data.h[i] = 12288
    /\ \E k \in 0 .. (FALCON_512_N - 1) : CenterRef(SchoolbookT(k)) < 0
    /\ SquaredNorm(FALCON_512_N) > 0

(***************************************************************************)
(* decode_sig_compressed, coefficient by coefficient                       *)
(***************************************************************************)
\* the first bit of compressed coefficient u (from 0) of a body that holds it
RECURSIVE WireStart(_, _)
WireStart(bytes, u) ==
    IF u = 0 THEN 0
    ELSE LET k == WireStart(bytes, u - 1)
         IN  k + 9 + ZeroRun(bytes, k + 8, 0)

\* m = the low 7 bits + 128 * the number of 0 bits before the 1 bit
WireMagnitude(bytes, k) == WireField(bytes, k + 1, 7) + 128 * ZeroRun(bytes, k + 8, 0)

\* C23: when decode_sig_compressed succeeds, each s2[u] is +m or -m with
\* m = (low 7 bits of the coefficient's first 8 bits) + 128 * (number of 0 bits
\* before the terminating 1 bit), the sign is the top bit of those 8 bits,
\* every |s2[u]| <= 2047, bits are consumed MSB-first in stream order, and the
\* return value is the number of input bytes read.
C23_CompressedValues ==
    (Done /\ result.len # 0) =>
        /\ \A u \in 0 .. (FALCON_512_N - 1) :
               LET k == WireStart(data, u)
                   m == WireMagnitude(data, k)
               IN  /\ result.s2[u + 1] = IF WireBit(data, k) = 1 THEN -m ELSE m
                   /\ result.s2[u + 1] \in -2047 .. 2047
        /\ result.len = (WireStart(data, FALCON_512_N) + 7) \div 8
        /\ result.len = result.read

\* a negative coefficient with a unary part, the largest magnitude, and a byte
\* left unread
C23_Witness ==
    /\ Done
    /\ result.len # 0
    /\ result.len < Len(data)
    /\ \E u \in 1 .. FALCON_512_N : result.s2[u] = -128
    /\ \E u \in 1 .. FALCON_512_N : result.s2[u] = 2047

\* C24: decode_sig_compressed terminates on every finite input: the unary loop
\* of one coefficient reads at most 16 bits (it fails on the 16th consecutive
\* 0 bit, when m exceeds 2047), and the decoder returns 0 as soon as a byte is
\* needed past the end of the input, never reading out of bounds.
C24_CompressedBoundedReads ==
    Done =>
        LET w == WireCoefficients(data, 0, FALCON_512_N)
        IN  /\ result.read <= Len(data)
            /\ (w.overflow /\ ~w.negzero) =>
                   /\ result.len = 0
                   /\ result.read = (w.next + 8 + 16 + 7) \div 8
            /\ (~w.complete /\ ~w.overflow /\ ~w.negzero) =>
                   /\ result.len = 0
                   /\ result.read = Len(data)
            /\ result.len # 0 =>
                   \A u \in 0 .. (FALCON_512_N - 1) :
                       ZeroRun(data, WireStart(data, u) + 8, 0) + 1 <= 16

\* sixteen 0 bits: the decoder stops there, with bytes of the input unread
C24_Witness ==
    /\ Done
    /\ LET w == WireCoefficients(data, 0, FALCON_512_N)
       IN  w.overflow /\ ~w.negzero /\ w.next > 0
    /\ result.len = 0
    /\ result.read < Len(data)

(***************************************************************************)
(* decode_sig_ct, coefficient by coefficient                               *)
(***************************************************************************)
\* the 12-bit two's-complement value of a 12-bit pattern
TwosComplement12(w) == IF w >= 2048 THEN w - 4096 ELSE w

\* C25: decode_sig_ct returns 0 for every body shorter than 12n/8 bytes (768
\* for n = 512); for a body of at least that length that it accepts, s2[i] is
\* the 12-bit two's-complement value of bits [12i, 12i+12) of the body read
\* MSB-first, it reads only the first 12n/8 bytes, and it returns 12n/8.
C25_CtValues ==
    Done =>
        /\ ~result.panic
        /\ Len(data) < (12 * FALCON_512_N) \div 8 => result.len = 0
        /\ result.len # 0 =>
               /\ result.len = (12 * FALCON_512_N) \div 8
               /\ \A i \in 0 .. (FALCON_512_N - 1) :
                      result.s2[i + 1] = TwosComplement12(WireField(data, 12 * i, 12))
               /\ result = decode_sig_ct(SubSeq(data, 1, (12 * FALCON_512_N) \div 8))

\* negative and positive coefficients, and a nonzero byte after the body
C25_Witness ==
    /\ Done
    /\ result.len # 0
    /\ Len(data) > result.len
    /\ data[Len(data)] # 0
    /\ \E i \in 1 .. FALCON_512_N : result.s2[i] = -1
    /\ \E i \in 1 .. FALCON_512_N : result.s2[i] = 2047

(***************************************************************************)
(* The formats                                                             *)
(***************************************************************************)
OtherCompressedHeader(b) == IF b = HEADER_PADDED THEN HEADER_COMPRESSED ELSE HEADER_PADDED

\* C26: verify_512 gives the same result for two signatures that differ only
\* in the format nibble of the header, 0x29 (padded) versus 0x39 (compressed).
C26_PaddedCompressedAlike ==
    (Done /\ Len(signature) >= 1 /\ signature[1] \in {HEADER_PADDED, HEADER_COMPRESSED})
        => verify_512(pubkey, message,
                      [signature EXCEPT ![1] = OtherCompressedHeader(signature[1])],
                      xof) = result

\* an accepted signature with zero bytes after the body, and a rejected one
\* with a nonzero byte there
C26_Witness ==
    /\ Done
    /\ Len(signature) >= SIG_MIN_SIZE
    /\ signature[1] = HEADER_COMPRESSED
    /\ Consumed > 0
    /\ Consumed < Len(SigBody)
    /\ result.ret
    /\ verify_512(pubkey, message, [signature EXCEPT ![1] = HEADER_PADDED], xof).ret
    /\ ~verify_512(pubkey, message, signature \o <<1>>, xof).ret

StoredKey == storage[FALCON_PUBKEY_KEY]

StoredKeyUndecodable ==
    \/ StoredKey[1] # 9
    \/ \E i \in 0 .. (FALCON_512_N - 1) : WireField(SliceFrom(StoredKey, 1), 14 * i, 14) >= Q

\* C28: the constructor accepts a key of the key size that decode_pubkey
\* rejects (first byte not 9, or a 14-bit coefficient >= q), and from then on
\* every __check_auth call returns InvalidSignatureSize or VerificationFailed,
\* never Ok.
C28_UndecodableKeyNeverAuthorizes ==
    /\ (op = "__constructor" /\ Len(pubkey) = FALCON_512_PUBKEY_SIZE)
           => (result = Returned("()") /\ Constructed /\ StoredKey = pubkey)
    /\ (op = "__check_auth" /\ Constructed /\ StoredKeyUndecodable)
           => \/ result = Returned("InvalidSignatureSize")
              \/ result = Returned("VerificationFailed")

\* a signature that a decodable key with the same coefficients elsewhere
\* accepts, refused under a stored key with a coefficient equal to q
C28_Witness ==
    /\ op = "__check_auth"
    /\ Constructed
    /\ StoredKey = OutOfRangeKey
    /\ signature = ValidSignature
    /\ verify_512(GoodPubkey, message, signature, xof[message]).ret
    /\ result = Returned("VerificationFailed")

\* C29: on a constructed account the stored key has exactly the public-key
\* size and __check_auth never panics, whatever the signature length; a
\* signature reaches the 700-byte buffer only with a length in [42, 700].
C29_CheckAuthNeverPanics ==
    /\ Constructed => Len(StoredKey) = FALCON_512_PUBKEY_SIZE
    /\ op = "__check_auth" =>
           /\ ~result.panic
           /\ ~copy_pubkey(StoredKey).panic
           /\ result # Returned("InvalidSignatureSize") =>
                  /\ ~SizeOutside42To700
                  /\ copy_signature(signature) = Returned(signature)

\* an empty signature on a constructed account
C29_Witness ==
    /\ op = "__check_auth"
    /\ Constructed
    /\ signature = <<>>
    /\ result = Returned("InvalidSignatureSize")

(***************************************************************************)
(* The shortest compressed body                                            *)
(***************************************************************************)
\* 9 bits per coefficient: sign, 7 low bits and the bit that ends the unary part
MinCompressedLen == (9 * FALCON_512_N + 7) \div 8

CompressedDecodeFails ==
    LET w == WireCoefficients(SigBody, 0, FALCON_512_N)
    IN  ~w.complete \/ w.negzero \/ WireTailNonzero(SigBody, w.next)

\* C30: a successful decode_sig_compressed call reads at least ceil(9n/8)
\* bytes (576 for n = 512), so it returns 0 exactly when it fails, and
\* verify_512 returns false for every compressed or padded signature shorter
\* than 41 + ceil(9n/8) bytes (617).
C30_CompressedMinimumLength ==
    /\ (Done /\ Len(signature) >= NONCE_END) =>
           LET d == decode_sig_compressed(SigBody)
           IN  /\ d.len = 0 <=> CompressedDecodeFails
               /\ d.len # 0 =>
                      /\ d.len >= MinCompressedLen
                      /\ d.len = d.read
                      /\ d.len = (WireCoefficients(SigBody, 0, FALCON_512_N).next + 7) \div 8
    /\ (/\ Done
        /\ Len(signature) >= 1
        /\ signature[1] \in {HEADER_PADDED, HEADER_COMPRESSED}
        /\ Len(signature) < NONCE_END + MinCompressedLen)
           => result = Ret(FALSE)

\* an accepted signature of the shortest length, refused without its last byte
C30_Witness ==
    /\ Done
    /\ Len(signature) = NONCE_END + MinCompressedLen
    /\ signature[1] = HEADER_PADDED
    /\ Consumed = MinCompressedLen
    /\ result.ret
    /\ verify_512(pubkey, message, DropLast(signature), xof) = Ret(FALSE)

====
